---- MODULE Spec2Model ----
(***************************************************************************)
(* Lead sourcing engine (src/app.py): the scoring function score_lead, the *)
(* London Datahub fetcher scrape_london_datahub and the score / filter /   *)
(* sort pass of main.                                                      *)
(*                                                                         *)
(* Texts are TLA+ strings; str.lower() and the `in` substring test are     *)
(* computed character by character.  The decorative glyphs that prefix the *)
(* reason and priority labels in the source are left out of the labels.    *)
(***************************************************************************)
EXTENDS Integers, Sequences, FiniteSets, TLC

VARIABLES pc, selected_councils, min_score, refused_only, idx, requests_sent,
          response, all_applications, pos, application, score, priority,
          reasons, scored_leads, ui

vars == <<pc, selected_councils, min_score, refused_only, idx, requests_sent,
          response, all_applications, pos, application, score, priority,
          reasons, scored_leads, ui>>

(***************************************************************************)
(* Bounds of the model.                                                    *)
(***************************************************************************)
MaxRecords == 2

(***************************************************************************)
(* Program constants.                                                      *)
(***************************************************************************)
MinScoreLo == -5
MinScoreHi == 10
HighThreshold == 5
MediumThreshold == 2

(***************************************************************************)
(* Python string primitives.                                               *)
(***************************************************************************)
UpperChars == "ABCDEFGHIJKLMNOPQRSTUVWXYZ"
LowerChars == "abcdefghijklmnopqrstuvwxyz"

CharAt(s, n) == SubSeq(s, n, n)

ToLowerTable ==
  [c \in {CharAt(UpperChars, n) : n \in 1..Len(UpperChars)} |->
     CharAt(LowerChars, CHOOSE n \in 1..Len(UpperChars) : CharAt(UpperChars, n) = c)]

LowerChar(c) == IF c \in DOMAIN ToLowerTable THEN ToLowerTable[c] ELSE c

RECURSIVE Lower(_)
Lower(s) ==
  IF Len(s) = 0 THEN ""
  ELSE LowerChar(CharAt(s, 1)) \o Lower(SubSeq(s, 2, Len(s)))

\* keyword in text
Contains(text, keyword) ==
  \E p \in 1..(Len(text) - Len(keyword) + 1) :
     SubSeq(text, p, p + Len(keyword) - 1) = keyword

\* any(keyword in text for keyword in keywords)
AnyKeywordIn(keywords, text) ==
  \E n \in 1..Len(keywords) : Contains(text, keywords[n])

\* dict.get(key, default)
Get(d, key, default) == IF key \in DOMAIN d THEN d[key] ELSE default

RECURSIVE Join(_, _)
Join(sep, parts) ==
  IF Len(parts) = 0 THEN ""
  ELSE IF Len(parts) = 1 THEN parts[1]
  ELSE parts[1] \o sep \o Join(sep, Tail(parts))

(***************************************************************************)
(* score_lead                                                              *)
(***************************************************************************)
company_keywords ==
  <<"ltd", "limited", "architects", "developments", "properties", "consulting", "design">>
commercial_keywords ==
  <<"retail", "commercial", "mixed use", "office", "shop", "restaurant", "cafe">>
extension_keywords ==
  <<"extension", "basement", "loft conversion", "rear extension", "side extension">>
private_keywords == <<"mr ", "mrs ", "miss ", "ms ", "dr ">>

ReasonCompany == "Company applicant"
ReasonCommercial == "Commercial/Mixed-use project"
ReasonRefused == "Recently refused (appeal opportunity)"
ReasonPriorApproval == "Prior Approval/Change of Use"
ReasonHMO == "HMO (excluded)"
ReasonExtension == "Extension/Loft (excluded)"
ReasonPrivate == "Private homeowner"

PriorityHigh == "A - HIGH PRIORITY"
PriorityMedium == "B - MEDIUM"
PriorityLow == "C - LOW"

\* the three fields read by score_lead, lower-cased
ApplicantOf(app) == Lower(Get(app, "applicant", Get(app, "applicant_name", "")))
DescriptionOf(app) == Lower(Get(app, "description", Get(app, "proposal", "")))
StatusOf(app) == Lower(Get(app, "status", Get(app, "decision", "")))

CompanyFires(applicant) == AnyKeywordIn(company_keywords, applicant)
CommercialFires(description) == AnyKeywordIn(commercial_keywords, description)
RefusedFires(status) == Contains(status, "refused") \/ Contains(status, "reject")
PriorApprovalFires(description) ==
  Contains(description, "prior approval") \/ Contains(description, "change of use")
HMOFires(description) ==
  \/ Contains(description, "hmo")
  \/ Contains(description, "house in multiple occupation")
  \/ Contains(description, "house of multiple occupation")
ExtensionFires(description) == AnyKeywordIn(extension_keywords, description)
PrivateFires(applicant) == AnyKeywordIn(private_keywords, applicant)

\* faulty variant: the rule assigns its weight instead of adding it
ApplyRuleAssign(acc, fires, weight, reason) ==
  IF fires
  THEN [score |-> weight, reasons |-> Append(acc.reasons, reason)]
  ELSE acc

\* if <trigger>: score += weight; reasons.append(reason)
ApplyRule(acc, fires, weight, reason) ==
  IF fires
  THEN [score |-> acc.score + weight, reasons |-> Append(acc.reasons, reason)]
  ELSE acc

\* faulty variant: the bands exclude their lower bound
PriorityLabelExclusive(s) ==
  IF s > HighThreshold THEN PriorityHigh
  ELSE IF s > MediumThreshold THEN PriorityMedium
  ELSE PriorityLow

PriorityLabel(s) ==
  IF s >= HighThreshold THEN PriorityHigh
  ELSE IF s >= MediumThreshold THEN PriorityMedium
  ELSE PriorityLow

\* faulty variant: the HMO rule adds its five points instead of subtracting them
RuleWeightsHMOSign == <<3, 3, 2, 1, 5, -5, -2>>

\* the points of rules 1..7
RuleWeights == <<3, 3, 2, 1, -5, -5, -2>>

score_lead(app) ==
  LET applicant == ApplicantOf(app)
      description == DescriptionOf(app)
      status == StatusOf(app)
      s0 == [score |-> 0, reasons |-> <<>>]
      s1 == ApplyRule(s0, CompanyFires(applicant), RuleWeights[1], ReasonCompany)
      s2 == ApplyRule(s1, CommercialFires(description), RuleWeights[2], ReasonCommercial)
      s3 == ApplyRule(s2, RefusedFires(status), RuleWeights[3], ReasonRefused)
      s4 == ApplyRule(s3, PriorApprovalFires(description), RuleWeights[4], ReasonPriorApproval)
      s5 == ApplyRule(s4, HMOFires(description), RuleWeights[5], ReasonHMO)
      s6 == ApplyRule(s5, ExtensionFires(description), RuleWeights[6], ReasonExtension)
      s7 == ApplyRule(s6, PrivateFires(applicant), RuleWeights[7], ReasonPrivate)
  IN [score |-> s7.score, priority |-> PriorityLabel(s7.score), reasons |-> s7.reasons]

(***************************************************************************)
(* Inputs of score_lead called on its own.                                 *)
(***************************************************************************)
ApplicantTexts ==
  {"Smith Developments Ltd", "Mr John Smith", "ABC Properties LTD", "Farms Ltd",
   "Adams Holdings", "Jane Doe", "Drake and Hamster", "Smith, Mr"}
DescriptionTexts ==
  {"Proposed mixed use retail and office scheme",
   "Single storey rear extension",
   "Change of use from retail to restaurant, HMO conversion of upper floors",
   "Prior approval for dwelling",
   "Basement extension to house in multiple occupation",
   "New dwelling",
   "Change of use to cafe"}
StatusTexts ==
  {"Refused", "Approved", "Pending", "Refused - appeal lodged", "Application REJECTED"}

ScoreInputs ==
  {[applicant |-> a, description |-> d, status |-> s] :
      a \in ApplicantTexts, d \in DescriptionTexts, s \in StatusTexts}
  \cup
  {[applicant_name |-> a, proposal |-> d, decision |-> s] :
      a \in ApplicantTexts, d \in DescriptionTexts, s \in StatusTexts}
  \cup {[reference |-> "24/0001"]}

NoResponse == [kind |-> "none"]

InitScore ==
  /\ pc = "call"
  /\ application \in ScoreInputs
  /\ selected_councils = <<>>
  /\ min_score = 2
  /\ refused_only = TRUE
  /\ idx = 0
  /\ requests_sent = 0
  /\ response = NoResponse
  /\ all_applications = <<>>
  /\ pos = 0
  /\ score = 0
  /\ priority = ""
  /\ reasons = <<>>
  /\ scored_leads = <<>>
  /\ ui = <<>>

CallScoreLead ==
  /\ pc = "call"
  /\ LET r == score_lead(application)
     IN /\ score' = r.score
        /\ priority' = r.priority
        /\ reasons' = r.reasons
  /\ pc' = "returned"
  /\ UNCHANGED <<selected_councils, min_score, refused_only, idx, requests_sent,
                 response, all_applications, pos, application, scored_leads, ui>>

NextScore == CallScoreLead

ScoreSpec == InitScore /\ [][NextScore]_vars

(***************************************************************************)
(* scrape_london_datahub                                                   *)
(***************************************************************************)
London == "London Planning Datahub"
Southwark == "Southwark"

RawA ==
  [planning_application_reference |-> "24/0001", site_address |-> "1 High St",
   development_description |-> "Change of use to mixed use retail scheme",
   applicant_name |-> "Smith Developments Ltd", status_description |-> "Refused",
   date_received |-> "2024-05-01"]
RawB ==
  [planning_application_reference |-> "24/0002", site_address |-> "2 Low Rd",
   development_description |-> "Prior approval for shop and cafe",
   applicant_name |-> "Acme Limited", status_description |-> "REFUSED",
   date_received |-> "2024-05-02"]
RawC ==
  [planning_application_reference |-> "24/0003", site_address |-> "3 Mill Ln",
   development_description |-> "Change of use from retail to restaurant, HMO conversion",
   applicant_name |-> "ABC Properties Ltd",
   status_description |-> "Refused - appeal lodged", date_received |-> "2024-05-03"]
RawD ==
  [planning_application_reference |-> "24/0004", site_address |-> "4 Park Av",
   development_description |-> "New office", applicant_name |-> "Jones Design",
   status_description |-> "Pending", date_received |-> "2024-05-04"]
\* a record carrying none of the fields the fetcher reads
RawE == [uprn |-> "100023336956"]
\* a record without status_description and date_received
RawF ==
  [planning_application_reference |-> "24/0006", site_address |-> "6 Elm Cl",
   development_description |-> "Basement extension to HMO",
   applicant_name |-> "Mrs Brown"]

RawPool == {RawA, RawB, RawC, RawD, RawE, RawF}

BoundedSeqs(S, n) == UNION {[1..k -> S] : k \in 0..n}

\* what requests.get / raise_for_status / response.json can produce
Responses ==
  {[kind |-> "ConnectionError", text |-> "Max retries exceeded with url"],
   [kind |-> "Timeout", text |-> ""]}
  \cup {[kind |-> "http", status |-> 500, is_json |-> FALSE, text |-> "Internal Server Error"],
        [kind |-> "http", status |-> 200, is_json |-> FALSE, text |-> "<html>maintenance</html>"]}
  \cup {[kind |-> "http", status |-> 200, is_json |-> TRUE,
         body |-> [message |-> "no results"]]}
  \cup {[kind |-> "http", status |-> 200, is_json |-> TRUE, body |-> [data |-> d]] :
           d \in BoundedSeqs(RawPool, MaxRecords)}

\* the exception the try block raises on resp, if any, with its str(e)
Raised(resp) ==
  IF resp.kind \in {"ConnectionError", "Timeout"}
  THEN [raised |-> TRUE, text |-> resp.text]
  ELSE IF resp.status >= 400
  THEN [raised |-> TRUE, text |-> "500 Server Error: " \o resp.text]
  ELSE IF ~resp.is_json
  THEN [raised |-> TRUE, text |-> "Expecting value: line 1 column 1 (char 0)"]
  ELSE [raised |-> FALSE, text |-> ""]

CanonicalKeys ==
  <<"reference", "address", "description", "applicant", "status", "date">>
SourceKeys ==
  <<"planning_application_reference", "site_address", "development_description",
    "applicant_name", "status_description", "date_received">>
LinkPrefix == "https://planningdata.london.gov.uk/planning-application/"

\* faulty variant: a field the feed leaves out is left out of the record
NormalizeNoSentinel(raw) ==
  LET present == {n \in 1..Len(SourceKeys) : SourceKeys[n] \in DOMAIN raw}
      keyOf(k) == CHOOSE n \in present : CanonicalKeys[n] = k
  IN [k \in {CanonicalKeys[n] : n \in present} |-> raw[SourceKeys[keyOf(k)]]]
     @@ [council |-> "London Datahub",
         link |-> LinkPrefix \o Get(raw, "planning_application_reference", "")]

\* the record appended for one element of data
Normalize(raw) ==
  [council |-> "London Datahub",
   reference |-> Get(raw, "planning_application_reference", "N/A"),
   address |-> Get(raw, "site_address", "N/A"),
   description |-> Get(raw, "development_description", "N/A"),
   applicant |-> Get(raw, "applicant_name", "N/A"),
   status |-> Get(raw, "status_description", "N/A"),
   date |-> Get(raw, "date_received", "N/A"),
   link |-> LinkPrefix \o Get(raw, "planning_application_reference", "")]

\* faulty variant: the handler reports the error and raises it again
ExceptHandlerReraise(text) ==
  [applications |-> <<>>,
   errors |-> <<[kind |-> "error", text |-> "Error scraping London Datahub: " \o text]>>,
   propagates |-> TRUE]

\* faulty variant: the handler swallows the exception without reporting it
ExceptHandlerSilent(text) ==
  [applications |-> <<>>, errors |-> <<>>, propagates |-> FALSE]

\* except Exception as e: st.error(...); return []
ExceptHandler(text) ==
  [applications |-> <<>>,
   errors |-> <<[kind |-> "error", text |-> "Error scraping London Datahub: " \o text]>>,
   propagates |-> FALSE]

\* the body of the try block once response.json() has returned data
ParseData(data) ==
  LET records == Get(data, "data", <<>>)
  IN [applications |-> [n \in 1..Len(records) |-> Normalize(records[n])],
      errors |-> <<>>,
      propagates |-> FALSE]

scrape_london_datahub(resp) ==
  LET e == Raised(resp)
  IN IF e.raised THEN ExceptHandler(e.text) ELSE ParseData(resp.body)

(***************************************************************************)
(* main: the search run                                                    *)
(***************************************************************************)
CouncilChoices ==
  {<<>>, <<London>>, <<Southwark>>, <<London, Southwark>>, <<Southwark, London>>}

NoApplication == [council |-> "none"]

Msg(kind, text) == [kind |-> kind, text |-> text]

\* faulty variant: a lead scoring exactly the minimum is dropped
KeepLeadExclusive(app, s, minimum, refusedOnly) ==
  /\ ~(s <= minimum)
  /\ ~(refusedOnly /\ ~Contains(Lower(app["status"]), "refused"))

\* the two filters of the scoring loop: TRUE when neither `continue` is taken
KeepLead(app, s, minimum, refusedOnly) ==
  /\ ~(s < minimum)
  /\ ~(refusedOnly /\ ~Contains(Lower(app["status"]), "refused"))

\* app['status'] raises KeyError
StatusLookupRaises(app, s, minimum, refusedOnly) ==
  /\ ~(s < minimum)
  /\ refusedOnly
  /\ "status" \notin DOMAIN app

\* {**app, 'score': ..., 'priority': ..., 'reasons': ' | '.join(reasons)}
MakeLead(app, r) ==
  [score |-> r.score, priority |-> r.priority, reasons |-> Join(" | ", r.reasons)] @@ app

\* faulty variant: a lead goes in front of the leads of equal score
InsertLeadBeforeTies(sorted, lead) ==
  LET before == SelectSeq(sorted, LAMBDA x : x.score > lead.score)
      after == SelectSeq(sorted, LAMBDA x : x.score <= lead.score)
  IN before \o <<lead>> \o after

\* one insertion of the stable descending sort: behind the leads of equal score
InsertLead(sorted, lead) ==
  LET before == SelectSeq(sorted, LAMBDA x : x.score >= lead.score)
      after == SelectSeq(sorted, LAMBDA x : x.score < lead.score)
  IN before \o <<lead>> \o after

\* scored_leads.sort(key=lambda x: x['score'], reverse=True)
RECURSIVE SortByScoreDesc(_)
SortByScoreDesc(leads) ==
  IF Len(leads) = 0 THEN <<>>
  ELSE InsertLead(SortByScoreDesc(SubSeq(leads, 1, Len(leads) - 1)), leads[Len(leads)])

Init ==
  /\ pc = "idle"
  /\ selected_councils = <<>>
  /\ min_score = 2
  /\ refused_only = TRUE
  /\ idx = 0
  /\ requests_sent = 0
  /\ response = NoResponse
  /\ all_applications = <<>>
  /\ pos = 0
  /\ application = NoApplication
  /\ score = 0
  /\ priority = ""
  /\ reasons = <<>>
  /\ scored_leads = <<>>
  /\ ui = <<>>

\* the search button is pressed with the sidebar's settings
ClickSearch ==
  /\ pc = "idle"
  /\ \E councils \in CouncilChoices, m \in MinScoreLo..MinScoreHi, r \in BOOLEAN :
       /\ selected_councils' = councils
       /\ min_score' = m
       /\ refused_only' = r
       /\ IF Len(councils) = 0
          THEN /\ ui' = Append(ui, Msg("warning", "Please select at least one council to search."))
               /\ pc' = "done"
               /\ idx' = idx
          ELSE /\ ui' = ui
               /\ pc' = "scrape"
               /\ idx' = 1
  /\ all_applications' = <<>>
  /\ UNCHANGED <<requests_sent, response, pos, application, score, priority,
                 reasons, scored_leads>>

\* scrape_london_datahub issues its one requests.get
SendRequest ==
  /\ pc = "scrape"
  /\ idx <= Len(selected_councils)
  /\ selected_councils[idx] = London
  /\ requests_sent' = requests_sent + 1
  /\ pc' = "await"
  /\ UNCHANGED <<selected_councils, min_score, refused_only, idx, response,
                 all_applications, pos, application, score, priority, reasons,
                 scored_leads, ui>>

\* requests.get returns or raises; the rest of scrape_london_datahub runs
ReceiveResponse ==
  /\ pc = "await"
  /\ \E resp \in Responses :
       LET r == scrape_london_datahub(resp)
       IN /\ response' = resp
          /\ ui' = ui \o r.errors
          /\ IF r.propagates
             THEN /\ pc' = "fault"
                  /\ UNCHANGED <<all_applications, idx>>
             ELSE /\ pc' = "scrape"
                  /\ all_applications' = all_applications \o r.applications
                  /\ idx' = idx + 1
  /\ UNCHANGED <<selected_councils, min_score, refused_only, requests_sent, pos,
                 application, score, priority, reasons, scored_leads>>

\* scrape_southwark: a placeholder returning nothing
ScrapeSouthwark ==
  /\ pc = "scrape"
  /\ idx <= Len(selected_councils)
  /\ selected_councils[idx] = Southwark
  /\ ui' = Append(ui, Msg("info", "Southwark scraping requires additional setup."))
  /\ idx' = idx + 1
  /\ UNCHANGED <<pc, selected_councils, min_score, refused_only, requests_sent,
                 response, all_applications, pos, application, score, priority,
                 reasons, scored_leads>>

\* every council was searched: stop when nothing was found
AfterScrape ==
  /\ pc = "scrape"
  /\ idx > Len(selected_councils)
  /\ IF Len(all_applications) = 0
     THEN /\ ui' = Append(ui, Msg("warning", "No applications found for the selected criteria."))
          /\ pc' = "done"
          /\ pos' = pos
     ELSE /\ ui' = Append(ui, Msg("success", "Found applications. Analyzing..."))
          /\ pc' = "score"
          /\ pos' = 1
  /\ scored_leads' = <<>>
  /\ UNCHANGED <<selected_councils, min_score, refused_only, idx, requests_sent,
                 response, all_applications, application, score, priority, reasons>>

\* one pass of the scoring loop
ScoreOne ==
  /\ pc = "score"
  /\ pos <= Len(all_applications)
  /\ LET app == all_applications[pos]
         r == score_lead(app)
     IN /\ application' = app
        /\ score' = r.score
        /\ priority' = r.priority
        /\ reasons' = r.reasons
        /\ IF StatusLookupRaises(app, r.score, min_score, refused_only)
           THEN /\ pc' = "fault"
                /\ UNCHANGED <<pos, scored_leads>>
           ELSE /\ pc' = "score"
                /\ pos' = pos + 1
                /\ scored_leads' =
                     IF KeepLead(app, r.score, min_score, refused_only)
                     THEN Append(scored_leads, MakeLead(app, r))
                     ELSE scored_leads
  /\ UNCHANGED <<selected_councils, min_score, refused_only, idx, requests_sent,
                 response, all_applications, ui>>

\* the loop is over: sort, then show the leads or the no-match notice
SortAndDisplay ==
  /\ pc = "score"
  /\ pos > Len(all_applications)
  /\ scored_leads' = SortByScoreDesc(scored_leads)
  /\ ui' = IF Len(scored_leads) = 0
           THEN ui \o <<Msg("subheader", "Found Qualified Leads"),
                        Msg("info", "No leads match your current filters.")>>
           ELSE Append(ui, Msg("subheader", "Found Qualified Leads"))
  /\ pc' = "done"
  /\ UNCHANGED <<selected_councils, min_score, refused_only, idx, requests_sent,
                 response, all_applications, pos, application, score, priority,
                 reasons>>

Next ==
  \/ ClickSearch
  \/ SendRequest
  \/ ReceiveResponse
  \/ ScrapeSouthwark
  \/ AfterScrape
  \/ ScoreOne
  \/ SortAndDisplay

Spec == Init /\ [][Next]_vars

(***************************************************************************)
(* Properties                                                              *)
(***************************************************************************)
Range(f) == {f[n] : n \in DOMAIN f}

Occurrences(seq, x) == Cardinality({n \in 1..Len(seq) : seq[n] = x})

RECURSIVE SumSeq(_)
SumSeq(ns) == IF Len(ns) = 0 THEN 0 ELSE Head(ns) + SumSeq(Tail(ns))

\* the seven rules as the specification lists them: trigger, points, reason
StatedPoints == <<3, 3, 2, 1, -5, -5, -2>>
StatedReasons ==
  <<ReasonCompany, ReasonCommercial, ReasonRefused, ReasonPriorApproval,
    ReasonHMO, ReasonExtension, ReasonPrivate>>
StatedTriggers(app) ==
  <<CompanyFires(ApplicantOf(app)), CommercialFires(DescriptionOf(app)),
    RefusedFires(StatusOf(app)), PriorApprovalFires(DescriptionOf(app)),
    HMOFires(DescriptionOf(app)), ExtensionFires(DescriptionOf(app)),
    PrivateFires(ApplicantOf(app))>>
TriggeredRules(app) ==
  LET t == StatedTriggers(app)
  IN SelectSeq(<<1, 2, 3, 4, 5, 6, 7>>, LAMBDA n : t[n])

\* C1: the score score_lead returns is the signed sum of the points of exactly
\* the rules whose trigger holds, and its reasons are those rules' reasons, one
\* each, in rule order 1..7; an applicant containing "ltd" always has the
\* company rule contribute its +3, and a record with no trigger gets score 0 and
\* no reasons.
C1_ScoreIsSignedSum ==
  pc = "returned" =>
    LET fired == TriggeredRules(application)
        others == SelectSeq(fired, LAMBDA n : n # 1)
    IN /\ score = SumSeq([k \in 1..Len(fired) |-> StatedPoints[fired[k]]])
       /\ reasons = [k \in 1..Len(fired) |-> StatedReasons[fired[k]]]
       /\ Contains(ApplicantOf(application), "ltd") =>
            /\ Len(reasons) > 0
            /\ reasons[1] = ReasonCompany
            /\ score = 3 + SumSeq([k \in 1..Len(others) |-> StatedPoints[others[k]]])
       /\ Len(fired) = 0 => (score = 0 /\ reasons = <<>>)

\* C1 witness: a company record that triggers rules 1, 2, 3, 4 and 5 together
C1_Witness ==
  /\ pc = "returned"
  /\ Contains(ApplicantOf(application), "ltd")
  /\ Len(reasons) = 5
  /\ score = 4

\* C2: the priority tier is decided by the score alone, each band including its
\* lower bound: score >= 5 is HIGH, 2 <= score < 5 is MEDIUM, score < 2 is LOW;
\* so 5 is HIGH, 4 and 2 are MEDIUM, 1 and -5 are LOW.
C2_TierFromScore ==
  /\ pc = "returned" =>
       /\ score >= 5 => priority = PriorityHigh
       /\ (2 <= score /\ score < 5) => priority = PriorityMedium
       /\ score < 2 => priority = PriorityLow
  /\ PriorityLabel(5) = PriorityHigh
  /\ PriorityLabel(4) = PriorityMedium
  /\ PriorityLabel(2) = PriorityMedium
  /\ PriorityLabel(1) = PriorityLow
  /\ PriorityLabel(-5) = PriorityLow

\* C2 witness: a record scored exactly 5, on the lower bound of the HIGH band
C2_Witness == pc = "returned" /\ score = 5 /\ priority = PriorityHigh

IsLetter(c) == c \in DOMAIN ToLowerTable \/ c \in Range(ToLowerTable)

Honorifics == <<"mr", "mrs", "miss", "ms", "dr">>

\* the honorific h stands in text as a word of its own
StandsAlone(text, h) ==
  \E p \in 1..(Len(text) - Len(h) + 1) :
     /\ SubSeq(text, p, p + Len(h) - 1) = h
     /\ (p = 1 \/ ~IsLetter(CharAt(text, p - 1)))
     /\ (p + Len(h) > Len(text) \/ ~IsLetter(CharAt(text, p + Len(h))))

\* C9: the private-homeowner rule fires exactly when the lower-cased applicant
\* contains one of the honorific tokens with its trailing space, and it does not
\* fire when the honorific's letters occur only inside a longer word.
C9_HonorificNotInsideWord ==
  pc = "returned" =>
    LET applicant == ApplicantOf(application)
        fired == ReasonPrivate \in Range(reasons)
    IN /\ fired <=> (\E n \in 1..Len(private_keywords) :
                        Contains(applicant, private_keywords[n]))
       /\ fired => \E n \in 1..Len(Honorifics) : StandsAlone(applicant, Honorifics[n])

\* what the search run must keep of the applications it found
StatedKeep(app) ==
  /\ score_lead(app).score >= min_score
  /\ refused_only => Contains(Lower(app["status"]), "refused")

\* the application a lead was made from
ApplicationOfLead(lead) ==
  [k \in DOMAIN lead \ {"score", "priority", "reasons"} |-> lead[k]]

LeadApplications == [n \in 1..Len(scored_leads) |-> ApplicationOfLead(scored_leads[n])]

C4_StableDescending ==
  pc = "done" =>
    /\ \A m, n \in 1..Len(scored_leads) :
         m < n => scored_leads[m].score >= scored_leads[n].score
    /\ \A v \in {scored_leads[n].score : n \in 1..Len(scored_leads)} :
         SelectSeq(LeadApplications, LAMBDA a : score_lead(a).score = v)
           = SelectSeq(all_applications,
                       LAMBDA a : StatedKeep(a) /\ score_lead(a).score = v)

\* C4 witness: two different leads of equal score, shown in fetch order
C4_Witness ==
  /\ pc = "done"
  /\ Len(scored_leads) = 2
  /\ scored_leads[1].score = scored_leads[2].score
  /\ scored_leads[1]["reference"] # scored_leads[2]["reference"]
  /\ LeadApplications = all_applications

HasError == \E n \in 1..Len(ui) : ui[n].kind = "error" /\ Len(ui[n].text) > 0

\* the request failed: transport error, timeout or non-success status
FetchFailed(resp) ==
  \/ resp.kind \in {"ConnectionError", "Timeout"}
  \/ (resp.kind = "http" /\ resp.status >= 400)

\* the request succeeded with a JSON body carrying data
FetchSucceeded(resp) ==
  /\ resp.kind = "http"
  /\ resp.status < 400
  /\ resp.is_json
  /\ "data" \in DOMAIN resp.body

\* the body is malformed: not JSON, or JSON without the data field
Malformed(resp) ==
  /\ resp.kind = "http"
  /\ resp.status < 400
  /\ (~resp.is_json \/ "data" \notin DOMAIN resp.body)

\* C5: when the one request fails by transport error, timeout or non-success
\* status, the fetcher returns no applications and reports a non-empty error;
\* the failure does not escape the run, the request is not repeated, and the
\* run ends with no leads.
C5_FetchFailureContained ==
  FetchFailed(response) =>
    /\ scrape_london_datahub(response).applications = <<>>
    /\ pc # "fault"
    /\ HasError
    /\ requests_sent = 1
    /\ all_applications = <<>>
    /\ scored_leads = <<>>
    /\ pc \in {"scrape", "done"}

\* C5 witness: a run that ended after its request timed out
C5_Witness == pc = "done" /\ response.kind = "Timeout" /\ scored_leads = <<>>

\* C6: a malformed body, not JSON or JSON without the data field, gives no
\* applications and an error report, as a transport failure does.
C6_MalformedReported ==
  Malformed(response) => (all_applications = <<>> /\ HasError)

AllKeys ==
  {"council", "reference", "address", "description", "applicant", "status", "date", "link"}

RunCanStep ==
  \/ ENABLED (ClickSearch \/ SendRequest \/ ReceiveResponse \/ ScrapeSouthwark
                \/ AfterScrape \/ SortAndDisplay)
  \/ (pc = "score" /\ pos <= Len(all_applications))

Excluded(rs) == ReasonHMO \in Range(rs) \/ ReasonExtension \in Range(rs)

\* score_lead on each of its own inputs: in range, and never HIGH when excluded
ScoreRangeOnInputs ==
  \A app \in ScoreInputs :
    LET r == score_lead(app)
    IN /\ r.score \in -12..9
       /\ Excluded(r.reasons) => (r.score <= 4 /\ r.priority # PriorityHigh)

\* C10: every score lies in -12..9 and a record triggering the HMO or the
\* extension rule scores at most 4 and is never HIGH; so a search with
\* min_score = 10 ends without leads and no HIGH lead carries an exclusion
\* reason.
C10_ScoreRange ==
  /\ ScoreRangeOnInputs
  /\ application # NoApplication =>
       /\ score \in -12..9
       /\ Excluded(reasons) => (score <= 4 /\ priority # PriorityHigh)
  /\ (pc = "done" /\ min_score = 10) => scored_leads = <<>>
  /\ \A n \in 1..Len(scored_leads) :
       scored_leads[n].priority = PriorityHigh =>
         /\ ~Contains(scored_leads[n].reasons, ReasonHMO)
         /\ ~Contains(scored_leads[n].reasons, ReasonExtension)

\* C10 witness: a min_score = 10 run that scored a 9 and then an excluded record
C10_Witness ==
  /\ pc = "done"
  /\ min_score = 10
  /\ Len(all_applications) = 2
  /\ score_lead(all_applications[1]).score = 9
  /\ score = 4
  /\ Excluded(reasons)
  /\ scored_leads = <<>>

====
